---- MODULE Spec2Model ----
(***************************************************************************)
(* Model of src/Proyecto_8.py: a Monte Carlo simulator of penalty kicks.   *)
(*                                                                         *)
(* Numbers are fixed point.  Probabilities and rates are integers in units *)
(* of 1/ProbScale (0.0001, the resolution of round(., 4)); lengths x and z *)
(* are integers in units of 1/LenScale (0.01 m, the resolution of          *)
(* round(., 2)); distances are whole metres, as argparse reads them.       *)
(* random.random() is an input: the number of goals of a cell is chosen    *)
(* among the counts that the draws of one cell can produce.                *)
(***************************************************************************)
EXTENDS Integers, Sequences, FiniteSets

\* ------------------------------------------------------------- bounds
\* The simulated roster is the first RosterSize players of PLAYERS.
RosterSize == 2
\* Runs are explored in which each player scores at most MaxGoals goals.
MaxGoals == 2

\* ------------------------------------------------- program constants
ProbScale == 10000
LenScale == 100
PMin == 100
PMax == 9900
RefDistance == 11
DistSlope == 150
SpreadDiv == 15
XMin == -366
XSpan == 732
ZMin == 50
ZSpan == 200

\* Command line values explored (argparse accepts any integer).
ShotsSet == {-1, 0, 1, 5001}
NxSet == {-1, 0, 1, 2}
NzSet == {-1, 0, 1, 2}
DistSet == {-100, -50, 11}

PLAYERS ==
    << [name |-> "Lionel", skill |-> 9200, pressure |-> 300],
       [name |-> "Rafael", skill |-> 8500, pressure |-> 400],
       [name |-> "Carlos", skill |-> 7800, pressure |-> 500],
       [name |-> "Hector", skill |-> 7400, pressure |-> 600],
       [name |-> "Diego",  skill |-> 7000, pressure |-> 700],
       [name |-> "Marco",  skill |-> 6800, pressure |-> 500],
       [name |-> "Pablo",  skill |-> 6600, pressure |-> 600],
       [name |-> "Andres", skill |-> 6400, pressure |-> 700],
       [name |-> "Javier", skill |-> 6000, pressure |-> 800],
       [name |-> "Luis",   skill |-> 5800, pressure |-> 900] >>

Roster == SubSeq(PLAYERS, 1, RosterSize)

VARIABLES
    args,         \* parsed command line: [shots, nx, nz, dist]
    pc,           \* position of main
    error,        \* exception that ended the run, or "none"
    raised_in,    \* function that raised it, or "none"
    grid_x,       \* main's grid_x
    grid_z,       \* main's grid_z
    distances,    \* main's distances
    all_results,  \* main's all_results
    pl,           \* index in PLAYERS of main's for loop
    results,      \* simulate_player's results
    di, xi, zi,   \* positions of simulate_player's three loops
    frame,        \* p_teo, p_real and goles of the latest loop body
    ranking,      \* main's ranking
    files         \* files created under outputs/, in creation order

vars == << args, pc, error, raised_in, grid_x, grid_z, distances, all_results,
           pl, results, di, xi, zi, frame, ranking, files >>

\* ---------------------------------------------------------- arithmetic
Min(a, b) == IF a <= b THEN a ELSE b
Max(a, b) == IF a >= b THEN a ELSE b

RECURSIVE ISqrtIn(_, _, _)
ISqrtIn(n, lo, hi) ==
    IF lo >= hi THEN lo
    ELSE LET mid == (lo + hi + 1) \div 2
         IN  IF mid * mid <= n THEN ISqrtIn(n, mid, hi)
             ELSE ISqrtIn(n, lo, mid - 1)

\* math.sqrt at the model's resolution: the largest r with r*r <= n.
ISqrt(n) == ISqrtIn(n, 0, 46340)

\* round(a / b) to the nearest integer, ties to the even one; b # 0.
RoundDiv(a, b) ==
    LET n == IF b < 0 THEN -a ELSE a
        d == IF b < 0 THEN -b ELSE b
        q == n \div d
        r == n % d
    IN  IF 2 * r < d THEN q
        ELSE IF 2 * r > d THEN q + 1
        ELSE IF q % 2 = 0 THEN q ELSE q + 1

\* sum(r[field] for r in subset)
RECURSIVE SumField(_, _)
SumField(subset, field) ==
    IF subset = << >> THEN 0
    ELSE subset[1][field] + SumField(Tail(subset), field)

\* ------------------------------------------------------ pure functions
\* theoretical_prob returning base itself, the clamp of line 32 left out.
theoretical_prob_unclamped(skill, distance, x, z) ==
    LET spread == ISqrt(((x * x + z * z)
                         * ((ProbScale * ProbScale) \div (LenScale * LenScale)))
                        \div SpreadDiv)
    IN  skill - DistSlope * (distance - RefDistance) - spread

\* Lines 21-32.
theoretical_prob(skill, distance, x, z) ==
    LET spread == ISqrt(((x * x + z * z)
                         * ((ProbScale * ProbScale) \div (LenScale * LenScale)))
                        \div SpreadDiv)
        base == skill - DistSlope * (distance - RefDistance) - spread
    IN  Min(Max(base, PMin), PMax)

\* The adjustment with the pressure added instead of subtracted.
adjusted_prob_added(p_teo, pressure) ==
    LET p_real == p_teo + pressure
    IN  Max(Min(p_real, PMax), PMin)

\* simulate_player, lines 47-48.
adjusted_prob(p_teo, pressure) ==
    LET p_real == p_teo - pressure
    IN  Max(Min(p_real, PMax), PMin)

\* The counts of goals that range(shots_per_cell) draws of
\* random.random() < p_real can leave in goles, for a player who has
\* `scored` goals in the cells before: random() is in [0, 1), so a goal
\* needs p_real > 0 and a miss needs p_real < 1.
GoalOutcomes(shots_per_cell, p_real, scored) ==
    IF shots_per_cell <= 0 THEN {0}
    ELSE { g \in 0..Min(shots_per_cell, MaxGoals - scored) :
             /\ (g > 0 => p_real > 0)
             /\ (g < shots_per_cell => p_real < ProbScale) }

GridX(nx) == [i \in 1..nx |-> RoundDiv(XMin * (nx - 1) + (i - 1) * XSpan, nx - 1)]
GridZ(nz) == [i \in 1..nz |-> RoundDiv(ZMin * (nz - 1) + (i - 1) * ZSpan, nz - 1)]

\* ------------------------------------------------------------- ranking
PlayerSubset(res, j) == SelectSeq(res, LAMBDA r : r.player = j)

\* set(r["player"] for r in results)
Jugadores(res) == { res[i].player : i \in 1..Len(res) }

\* The orders in which a for loop can iterate a set of strings: the order
\* follows the strings' hashes, which are salted per process.
IterationOrders(S) ==
    { s \in [1..Cardinality(S) -> S] :
        \A i, k \in 1..Cardinality(S) : i # k => s[i] # s[k] }

\* goals / shots or sum(...) / len(subset) divides by zero.
RankingRaises(res) ==
    \E j \in Jugadores(res) : SumField(PlayerSubset(res, j), "tiros") = 0

RankingEntry(res, j) ==
    LET subset == PlayerSubset(res, j)
        goals == SumField(subset, "goles")
        shots == SumField(subset, "tiros")
    IN  [ player |-> j,
          goles_totales |-> goals,
          tiros_totales |-> shots,
          tasa_empirica |-> RoundDiv(goals * ProbScale, shots),
          tasa_teorica_prom |-> RoundDiv(SumField(subset, "p_teorica"), Len(subset)) ]

\* list.sort(key=tasa_empirica, reverse=...) is stable: the last entry goes
\* after every sorted entry that it does not sort strictly before.
SortsBefore(a, b, reverse) ==
    IF reverse THEN a.tasa_empirica > b.tasa_empirica
    ELSE a.tasa_empirica < b.tasa_empirica

RECURSIVE StableSort(_, _)
StableSort(s, reverse) ==
    IF s = << >> THEN << >>
    ELSE LET front == StableSort(SubSeq(s, 1, Len(s) - 1), reverse)
             e == s[Len(s)]
             k == Cardinality({ i \in 1..Len(front) : ~SortsBefore(e, front[i], reverse) })
         IN  SubSeq(front, 1, k) \o << e >> \o SubSeq(front, k + 1, Len(front))

\* The sort of line 124 without reverse=True.
RankingSortAscending(entries) == StableSort(entries, FALSE)

\* ranking.sort(key=lambda r: r["tasa_empirica"], reverse=True)
RankingSort(entries) == StableSort(entries, TRUE)

compute_ranking(res, order) ==
    RankingSort([ i \in 1..Len(order) |-> RankingEntry(res, order[i]) ])

\* ------------------------------------------------------------- the run
Init ==
    /\ args \in [shots : ShotsSet, nx : NxSet, nz : NzSet, dist : DistSet]
    /\ pc = "grid"
    /\ error = "none"
    /\ raised_in = "none"
    /\ grid_x = << >>
    /\ grid_z = << >>
    /\ distances = << >>
    /\ all_results = << >>
    /\ pl = 1
    /\ results = << >>
    /\ di = 1
    /\ xi = 1
    /\ zi = 1
    /\ frame = << >>
    /\ ranking = << >>
    /\ files = << >>

\* An uncaught exception ends the process.
Raise(type, fn) ==
    /\ pc' = "aborted"
    /\ error' = type
    /\ raised_in' = fn

\* main, lines 139-145: the two grids and the distance list.
BuildGrid ==
    /\ pc = "grid"
    /\ IF args.nx = 1
       THEN /\ Raise("ZeroDivisionError", "main")
            /\ UNCHANGED << grid_x, grid_z, distances >>
       ELSE IF args.nz = 1
       THEN /\ Raise("ZeroDivisionError", "main")
            /\ grid_x' = GridX(args.nx)
            /\ UNCHANGED << grid_z, distances >>
       ELSE /\ grid_x' = GridX(args.nx)
            /\ grid_z' = GridZ(args.nz)
            /\ distances' = << args.dist >>
            /\ pc' = "simulate"
            /\ UNCHANGED << error, raised_in >>
    /\ UNCHANGED << args, all_results, pl, results, di, xi, zi, frame,
                    ranking, files >>

\* Whether the three nested loops have a body to run at <<d, x, z>>.
InLoops(d, x, z) ==
    /\ d <= Len(distances)
    /\ x <= Len(grid_x)
    /\ z <= Len(grid_z)

LoopsDone == << Len(distances) + 1, 1, 1 >>

\* The first iteration of for dist / for x / for z, if there is one.
FirstCell == IF InLoops(1, 1, 1) THEN << 1, 1, 1 >> ELSE LoopsDone

\* The loops of lines 43-44 swapped: x innermost, then z, then dist.
NextCellXInner(d, x, z) ==
    IF x < Len(grid_x) THEN << d, x + 1, z >>
    ELSE IF z < Len(grid_z) THEN << d, 1, z + 1 >>
    ELSE IF d < Len(distances) THEN << d + 1, 1, 1 >>
    ELSE LoopsDone

\* The iteration after <<d, x, z>>: z innermost, then x, then dist.
NextCell(d, x, z) ==
    IF z < Len(grid_z) THEN << d, x, z + 1 >>
    ELSE IF x < Len(grid_x) THEN << d, x + 1, 1 >>
    ELSE IF d < Len(distances) THEN << d + 1, 1, 1 >>
    ELSE LoopsDone

\* main, lines 155-156, and simulate_player, lines 35-40: the call.
SimulatePlayerCall ==
    /\ pc = "simulate"
    /\ pl <= Len(Roster)
    /\ results' = << >>
    /\ di' = FirstCell[1]
    /\ xi' = FirstCell[2]
    /\ zi' = FirstCell[3]
    /\ pc' = "cell"
    /\ UNCHANGED << args, error, raised_in, grid_x, grid_z, distances,
                    all_results, pl, frame, ranking, files >>

\* simulate_player, lines 46-65: one body of the innermost loop.
SimulateCell ==
    /\ pc = "cell"
    /\ InLoops(di, xi, zi)
    /\ LET player == Roster[pl]
           dist == distances[di]
           x == grid_x[xi]
           z == grid_z[zi]
           p_teo == theoretical_prob(player.skill, dist, x, z)
           p_real == adjusted_prob(p_teo, player.pressure)
       IN  \E goles \in GoalOutcomes(args.shots, p_real, SumField(results, "goles")) :
             /\ frame' = << [p_teo |-> p_teo, p_real |-> p_real, goles |-> goles] >>
             /\ IF args.shots = 0
                THEN /\ Raise("ZeroDivisionError", "simulate_player")
                     /\ UNCHANGED << results, di, xi, zi >>
                ELSE /\ results' = Append(results,
                            [ player |-> player.name,
                              distance |-> dist,
                              x |-> x,
                              z |-> z,
                              p_teorica |-> p_teo,
                              tiros |-> args.shots,
                              goles |-> goles,
                              p_empirica |-> RoundDiv(goles * ProbScale, args.shots) ])
                     /\ di' = NextCell(di, xi, zi)[1]
                     /\ xi' = NextCell(di, xi, zi)[2]
                     /\ zi' = NextCell(di, xi, zi)[3]
                     /\ UNCHANGED << pc, error, raised_in >>
    /\ UNCHANGED << args, grid_x, grid_z, distances, all_results, pl,
                    ranking, files >>

\* simulate_player, line 67, and main, line 156: return and +=.
SimulatePlayerReturn ==
    /\ pc = "cell"
    /\ ~InLoops(di, xi, zi)
    /\ all_results' = all_results \o results
    /\ pl' = pl + 1
    /\ pc' = "simulate"
    /\ UNCHANGED << args, error, raised_in, grid_x, grid_z, distances,
                    results, di, xi, zi, frame, ranking, files >>

\* The ranking and what follows it run one iteration early, before the
\* last player of the roster is sampled.
ComputeRankingEarly ==
    /\ pc = "simulate"
    /\ pl >= Len(Roster)
    /\ \E order \in IterationOrders(Jugadores(all_results)) :
         IF RankingRaises(all_results)
         THEN /\ Raise("ZeroDivisionError", "compute_ranking")
              /\ UNCHANGED ranking
         ELSE /\ ranking' = compute_ranking(all_results, order)
              /\ pc' = "save_detail"
              /\ UNCHANGED << error, raised_in >>
    /\ UNCHANGED << args, grid_x, grid_z, distances, all_results, pl,
                    results, di, xi, zi, frame, files >>

\* main, line 159: compute_ranking(all_results).
ComputeRanking ==
    /\ pc = "simulate"
    /\ pl > Len(Roster)
    /\ \E order \in IterationOrders(Jugadores(all_results)) :
         IF RankingRaises(all_results)
         THEN /\ Raise("ZeroDivisionError", "compute_ranking")
              /\ UNCHANGED ranking
         ELSE /\ ranking' = compute_ranking(all_results, order)
              /\ pc' = "save_detail"
              /\ UNCHANGED << error, raised_in >>
    /\ UNCHANGED << args, grid_x, grid_z, distances, all_results, pl,
                    results, di, xi, zi, frame, files >>

\* What one call of save_csv can do: write the file, fail before the file
\* exists (makedirs, open), or fail after open created it (a write).
SaveOutcomes == {"written", "no_file", "partial"}

\* save_csv, lines 91-100, called for `name` at position `here` of main.
SaveCsv(name, here, next) ==
    /\ pc = here
    /\ \E outcome \in SaveOutcomes :
         /\ files' = IF outcome = "no_file" THEN files ELSE Append(files, name)
         /\ IF outcome = "written"
            THEN /\ pc' = next
                 /\ UNCHANGED << error, raised_in >>
            ELSE Raise("OSError", "save_csv")
    /\ UNCHANGED << args, grid_x, grid_z, distances, all_results, pl,
                    results, di, xi, zi, frame, ranking >>

\* main, lines 163-164.
SaveDetail == SaveCsv("detalle", "save_detail", "save_ranking")

\* main, lines 165-166.
SaveRanking == SaveCsv("ranking", "save_ranking", "report")

\* main, lines 168-180: the console report.
Report ==
    /\ pc = "report"
    /\ pc' = "done"
    /\ UNCHANGED << args, error, raised_in, grid_x, grid_z, distances,
                    all_results, pl, results, di, xi, zi, frame, ranking, files >>

Next ==
    \/ BuildGrid
    \/ SimulatePlayerCall
    \/ SimulateCell
    \/ SimulatePlayerReturn
    \/ ComputeRanking
    \/ SaveDetail
    \/ SaveRanking
    \/ Report

Spec == Init /\ [][Next]_vars

\* ------------------------------------------------------------ claims
Terminated == pc \in {"done", "aborted"}

\* compute_ranking has returned its list to main.
RankingReturned ==
    \/ pc \in {"save_detail", "save_ranking", "report", "done"}
    \/ pc = "aborted" /\ raised_in = "save_csv"

\* main's for loop over PLAYERS has ended.
SimulationComplete == pl > Len(Roster) /\ pc # "cell"

RosterIndex(name) == CHOOSE i \in 1..Len(PLAYERS) : PLAYERS[i].name = name

\* Every record built so far, returned to main or not.
Records == all_results \o results

\* a's goles_totales / tiros_totales is strictly below b's.
ExactRateBelow(a, b) ==
    IF a.tiros_totales * b.tiros_totales > 0
    THEN a.goles_totales * b.tiros_totales < b.goles_totales * a.tiros_totales
    ELSE a.goles_totales * b.tiros_totales > b.goles_totales * a.tiros_totales

\* C1: with --shots <= 0 (and a grid that has cells) the run ends only by
\* aborting with InvalidConfiguration: not with a raw ZeroDivisionError and
\* not by completing.
C1_ShotsRejected ==
    (args.shots <= 0 /\ args.nx >= 2 /\ args.nz >= 2 /\ Terminated)
        => (pc = "aborted" /\ error = "InvalidConfiguration")

\* C2: with nx < 2 or nz < 2 the grid construction is rejected with
\* InvalidConfiguration before any cell is simulated or file written; the
\* run never goes on with a degenerate or empty grid.
C2_GridRejected ==
    ((args.nx < 2 \/ args.nz < 2) /\ pc # "grid")
        => /\ pc = "aborted"
           /\ error = "InvalidConfiguration"
           /\ Records = << >>
           /\ files = << >>

\* C3: every record built by simulate_player has 0 <= goles <= tiros.
C3_GoalsWithinShots ==
    \A i \in 1..Len(Records) :
        0 <= Records[i].goles /\ Records[i].goles <= Records[i].tiros

\* C4: the theoretical probability and the adjusted probability of every
\* cell evaluated lie in [0.01, 0.99].
C4_ProbabilitiesClamped ==
    /\ \A i \in 1..Len(frame) :
         /\ PMin <= frame[i].p_teo /\ frame[i].p_teo <= PMax
         /\ PMin <= frame[i].p_real /\ frame[i].p_real <= PMax
    /\ \A i \in 1..Len(Records) :
         PMin <= Records[i].p_teorica /\ Records[i].p_teorica <= PMax

\* A cell whose unclamped value exceeds 0.99 has been evaluated, and the
\* pressure has brought the adjusted probability below 0.99.
C4_Witness ==
    /\ args.shots > 0
    /\ frame # << >>
    /\ frame[1].p_teo = PMax
    /\ frame[1].p_real < PMax
    /\ results # << >>

\* C5: once the simulation loop has ended, all_results holds exactly
\* |players| * |distances| * |grid_x| * |grid_z| records, and the k-th one is
\* that of the k-th combination in the order player, distance, x, z.
C5_RecordsInLoopOrder ==
    SimulationComplete =>
        LET nd == Len(distances)
            nx == Len(grid_x)
            nz == Len(grid_z)
        IN  /\ Len(all_results) = Len(Roster) * nd * nx * nz
            /\ \A k \in 1..Len(all_results) :
                 LET p == (k - 1) \div (nd * nx * nz)
                     d == ((k - 1) \div (nx * nz)) % nd
                     x == ((k - 1) \div nz) % nx
                     z == (k - 1) % nz
                 IN  /\ all_results[k].player = Roster[p + 1].name
                     /\ all_results[k].distance = distances[d + 1]
                     /\ all_results[k].x = grid_x[x + 1]
                     /\ all_results[k].z = grid_z[z + 1]

\* A run over a grid with cells has completed.
C5_Witness ==
    /\ pc = "done"
    /\ args.shots > 0
    /\ Len(grid_x) >= 2
    /\ Len(grid_z) >= 2
    /\ Len(all_results) >= 2 * Len(grid_x) * Len(grid_z)

\* C6: whenever compute_ranking has returned, the ranking holds exactly one
\* entry per roster player.
C6_RankingCoversRoster ==
    RankingReturned =>
        /\ Len(ranking) = Len(Roster)
        /\ { ranking[i].player : i \in 1..Len(ranking) }
             = { Roster[i].name : i \in 1..Len(Roster) }

\* C7 as claimed: no entry of the ranking precedes one whose exact rate
\* goles_totales / tiros_totales is strictly higher.
C7_SortedByExactRate ==
    RankingReturned =>
        \A i \in 1..(Len(ranking) - 1) : ~ExactRateBelow(ranking[i], ranking[i + 1])

\* C7 as amended: consecutive entries of the ranking are in non-increasing
\* order of tasa_empirica, the empirical rate rounded to 4 decimals.
C7_SortedByRoundedRate ==
    RankingReturned =>
        \A i \in 1..(Len(ranking) - 1) :
            ranking[i].tasa_empirica >= ranking[i + 1].tasa_empirica

\* A ranking of players with different rates has been returned, the player
\* later in the roster first.
C7_Witness ==
    /\ RankingReturned
    /\ Len(ranking) >= 2
    /\ ranking[1].tasa_empirica > ranking[2].tasa_empirica
    /\ RosterIndex(ranking[1].player) > RosterIndex(ranking[2].player)

\* C8: players with equal empirical rate appear in the ranking in roster
\* order, whatever the iteration order of the set of names.
C8_TiesInRosterOrder ==
    (RankingReturned /\ args.shots > 0) =>
        \A i, k \in 1..Len(ranking) :
            (i < k /\ ranking[i].tasa_empirica = ranking[k].tasa_empirica)
                => RosterIndex(ranking[i].player) < RosterIndex(ranking[k].player)

\* C9: the adjusted probability of every cell evaluated is at most its
\* theoretical probability.
C9_PressureNeverHelps ==
    \A i \in 1..Len(frame) : frame[i].p_real <= frame[i].p_teo

\* A cell whose theoretical probability is clamped to 0.01 has been
\* evaluated and recorded.
C9_Witness ==
    /\ args.shots > 0
    /\ frame # << >>
    /\ frame[1].p_teo = PMin
    /\ results # << >>

\* C10: files exist only after every player was sampled and the ranking
\* computed; a failure in the grid, the sampling or the ranking leaves no
\* file; and the detail CSV comes before the ranking CSV.
C10_OutputAfterCompute ==
    /\ files # << >> => (SimulationComplete /\ RankingReturned)
    /\ (pc = "aborted" /\ raised_in # "save_csv") => files = << >>
    /\ files \in { << >>, << "detalle" >>, << "detalle", "ranking" >> }

\* Both files of a run over a grid with cells have been written.
C10_Witness ==
    /\ args.shots > 0
    /\ files = << "detalle", "ranking" >>
    /\ all_results # << >>

====
